---- MODULE Spec2Model ----
(***************************************************************************)
(* xsk-rs: the transmit queue handle (src/socket/tx_queue.rs) over a       *)
(* single-producer/single-consumer AF_XDP ring, and the anonymous memory   *)
(* mapping (src/umem/mmap/mod.rs) that backs the UMEM.                     *)
(*                                                                         *)
(* The producer side is TxQueue, one step per shared-memory access, so     *)
(* that the kernel consumer interleaves with it as it does on the real     *)
(* ring.  `idx += 1` on a u32 wraps in a build without overflow checks and *)
(* panics in one with them; the model takes either where it overflows.     *)
(* Cursors are unsigned machine words; TLC's integers are 32-bit signed,   *)
(* so the u32 width is scaled to CursorBits bits and every cursor          *)
(* operation is taken modulo 2^CursorBits.                                 *)
(*                                                                         *)
(* A call ends at pc = "ret", where its result and what it observed can be *)
(* read; Return then pops the frame.  Popping the frame touches no shared  *)
(* memory, so it commutes with every step of the kernel and of the frame   *)
(* owner; those steps are taken before the call's last access or after    *)
(* Return, never in between.  The frame owner is the thread that calls the *)
(* queue and its own steps (filling a frame, taking a completion) touch    *)
(* nothing the queue reads, so they are taken between calls.  For the     *)
(* same reason the kernel's steps are interleaved where the call can tell  *)
(* them apart: it consumes while the call reserves, writes and publishes   *)
(* (the cursors and the slots), and it flips the wakeup flag up to the     *)
(* call's read of the flag; a consume step next to the flag read or the    *)
(* sendto() commutes with it and is taken after the call.                  *)
(***************************************************************************)
EXTENDS Integers, Sequences, FiniteSets, TLC

\* ------------------------------------------------------------------ bounds
\* width of a cursor word (u32 in the code), scaled down
CursorBits == 2
\* ring sizes are the powers of two 2^0 .. 2^MaxSizeExp
MaxSizeExp == 1
\* frames of the UMEM
NumFrames == 3
\* byte size of a frame (frame i sits at offset i * FrameSize)
FrameSize == 2

\* mappings made in one run
MaxMaps == 2
\* Mmap values made of one mapping (the first and its clones)
MaxVals == 2
\* addresses the OS hands out: 1 .. NumAddrs
NumAddrs == 2
\* lengths asked of Mmap::new: 0 .. MaxMapLen
MaxMapLen == 2

\* ------------------------------------------------------- program constants
EAGAIN == 11
EBUSY == 16
ENETDOWN == 100
ENOBUFS == 105
MAP_FAILED == -1
NULL == 0
\* errnos of a failed sendto() that the match does not list
OtherErrnos == {6, 22}
\* timeouts given to poll: block, return at once, wait
PollTimeouts == {-1, 0, 1}

RECURSIVE Pow2(_)
Pow2(n) == IF n = 0 THEN 1 ELSE 2 * Pow2(n - 1)

\* number of values of a cursor word (2^32 in the code)
U32 == Pow2(CursorBits)
Sizes == {Pow2(e) : e \in 0..MaxSizeExp}

Frames == 0..(NumFrames - 1)
\* payload lengths a frame is filled with: a full frame
Lens == {FrameSize}

VARIABLES
    \* the ring shared with the kernel (struct xsk_ring_prod and its mmap)
    size,          \* number of descriptor slots, a power of two
    producer,      \* *ring.producer, written by user space only
    consumer,      \* *ring.consumer, written by the kernel only
    flags,         \* *ring.flags, XDP_RING_NEED_WAKEUP bit, written by the kernel
    descs,         \* the descriptor array, slot -> xdp_desc
    cached_prod,   \* ring.cached_prod, local to the producer
    cached_cons,   \* ring.cached_cons, local to the producer (consumer + size)
    \* the TxQueue call in progress
    pc,            \* position of the producer thread
    op,            \* the public method that was called
    frames,        \* its `frames` argument: a sequence of Frame records
    idx,           \* local `idx`
    cnt,           \* local `cnt`
    k,             \* frames already taken by the `for` loop
    ret,           \* what the call returns
    \* observations of the call in progress (ghost state)
    prod0,         \* producer cursor when the call started
    free0,         \* free slots of the ring when the call reserved
    ring0,         \* descs, cached_prod, cached_cons when the call started
    nwrites,       \* descriptor stores the call has made
    flag_read,     \* what needs_wakeup() returned inside produce_and_wakeup
    wakeups,       \* number of sendto() calls the call has issued
    sent,          \* what the call's sendto() did
    \* the frames of the UMEM and the kernel side
    own,           \* frame -> "empty" | "filled" | "kernel"
    flen,          \* frame -> payload length
    comp,          \* completion ring: offsets echoed back by the kernel
    asleep,        \* TRUE while the kernel's transmit path waits for a wakeup
    \* the anonymous mappings (Mmap) and the address space
    region,        \* mapping id -> [addr, len] of the Mmap values made from it
    live,          \* mapping id -> number of live Mmap values holding it
    munmaps,       \* mapping id -> munmap() calls issued by drops of its values
    mapped,        \* address -> id of the mapping the OS has there, 0 when none
    nmaps,         \* mappings made so far
    logged,        \* error lines written by drop
    mpc,           \* "idle" | "ret" | "panicked": the thread using Mmap
    mret,          \* what Mmap::new returned
    mlast          \* what the last Mmap::new was given and saw

vars == <<size, producer, consumer, flags, descs, cached_prod, cached_cons,
          pc, op, frames, idx, cnt, k, ret,
          prod0, free0, ring0, nwrites, flag_read, wakeups, sent,
          own, flen, comp, asleep,
          region, live, munmaps, mapped, nmaps, logged, mpc, mret, mlast>>

ringVars == <<size, producer, consumer, flags, descs, cached_prod, cached_cons>>
callVars == <<pc, op, frames, idx, cnt, k, ret>>
ghostVars == <<prod0, free0, ring0, nwrites, flag_read, wakeups, sent>>
mmapVars == <<region, live, munmaps, mapped, nmaps, logged, mpc, mret, mlast>>
envVars == <<own, flen, comp, asleep, mmapVars>>
txVars == <<ringVars, callVars, ghostVars, own, flen, comp, asleep>>

\* ------------------------------------------------------------- arithmetic
\* u32 wrapping addition and subtraction
Add32(a, b) == (a + b) % U32
Sub32(a, b) == (a - b + U32) % U32

\* idx & ring.mask with mask = size - 1, for a power-of-two size
Slot(i, sz) == i % sz

ZeroDesc == [addr |-> 0, len |-> 0, options |-> 0]
NoRet == [op |-> "none", ok |-> TRUE, val |-> 0]
NoRing == [descs |-> <<>>, cached_prod |-> 0, cached_cons |-> 0]
NoSend == [sret |-> 0, errno |-> 0]

\* ---------------------------------------------------------------- frames
FrameAddr(f) == f * FrameSize
FrameOf(addr) == addr \div FrameSize

\* the Frame handed to the queue: its offset in the UMEM, payload length, options
FrameRec(f) == [addr |-> FrameAddr(f), len |-> flen[f], options |-> 0]

\* Frame::write_xdp_desc: the descriptor written for a frame
write_xdp_desc(frame) ==
    [addr |-> frame.addr, len |-> frame.len, options |-> frame.options]

\* sequences without repetition over a set of frames
RECURSIVE Arrangements(_)
Arrangements(S) ==
    IF S = {} THEN {<<>>}
    ELSE {<<>>} \cup
         UNION {{<<FrameRec(f)>> \o t : t \in Arrangements(S \ {f})} : f \in S}

\* batches the caller may pass: frames it owns and has filled (Safety contract)
Batches == Arrangements({f \in Frames : own[f] = "filled"})

\* ------------------------------------------------------ libbpf primitives
\* xsk_prod_nb_free: free slots by the cached cursors; the shared consumer
\* cursor is loaded only when the cache does not show enough room
xsk_prod_nb_free(cp, cc, cons, sz, nb) ==
    LET free_entries == Sub32(cc, cp) IN
    IF free_entries >= nb
    THEN [free |-> free_entries, cached_cons |-> cc]
    ELSE [free |-> Sub32(Add32(cons, sz), cp), cached_cons |-> Add32(cons, sz)]

\* a reservation that grants what is free (the behaviour of a peek)
reserve_partial(cp, cc, cons, sz, nb) ==
    LET f == xsk_prod_nb_free(cp, cc, cons, sz, nb)
        n == IF f.free < nb THEN f.free ELSE nb IN
    [cnt |-> n, idx |-> IF n = 0 THEN 0 ELSE cp, cached_prod |-> Add32(cp, n),
     cached_cons |-> f.cached_cons]

\* a reservation that does not look at the free space
reserve_unchecked(cp, cc, cons, sz, nb) ==
    [cnt |-> nb, idx |-> cp, cached_prod |-> Add32(cp, nb), cached_cons |-> cc]

\* xsk_ring_prod__reserve: nb slots or none
xsk_ring_prod__reserve(cp, cc, cons, sz, nb) ==
    LET f == xsk_prod_nb_free(cp, cc, cons, sz, nb) IN
    IF f.free < nb
    THEN [cnt |-> 0, idx |-> 0, cached_prod |-> cp, cached_cons |-> f.cached_cons]
    ELSE [cnt |-> nb, idx |-> cp, cached_prod |-> Add32(cp, nb),
          cached_cons |-> f.cached_cons]

\* a submit that does not store the producer cursor
submit_nothing(prod, nb) == prod

\* xsk_ring_prod__submit: publish nb slots with one store of the producer cursor
xsk_ring_prod__submit(prod, nb) == Add32(prod, nb)

\* a wakeup test that does not read the flag
needs_wakeup_always(fl) == TRUE

\* a wakeup test with the sense of the flag inverted
needs_wakeup_inverted(fl) == fl = 0

\* xsk_ring_prod__needs_wakeup(...) != 0
needs_wakeup(fl) == fl # 0

\* the match with ENETDOWN left out
IsBenign_NoNetdown(errno) == errno \in {ENOBUFS, EAGAIN, EBUSY}

\* the `match util::get_errno()` arm that is swallowed
IsBenign(errno) == errno \in {ENOBUFS, EAGAIN, EBUSY, ENETDOWN}

\* TxQueue::wakeup on a sendto() that returned sret with the given errno
wakeup(sret, errno) ==
    IF sret < 0 /\ ~IsBenign(errno)
    THEN [ok |-> FALSE, val |-> errno]
    ELSE [ok |-> TRUE, val |-> 0]

\* what sendto() can do: succeed (0 bytes sent) or fail with an errno
SendOutcomes ==
    {[sret |-> 0, errno |-> 0]} \cup
    {[sret |-> -1, errno |-> e] :
        e \in {ENOBUFS, EAGAIN, EBUSY, ENETDOWN} \cup OtherErrnos}

\* free slots of the ring as the kernel sees it
FreeSlots == size - Sub32(producer, consumer)
InFlight == Sub32(producer, consumer)

\* ------------------------------------------------------------------- Mmap
MapIds == 1..MaxMaps
Addrs == 1..NumAddrs
MapLens == 0..MaxMapLen
NoRegion == [addr |-> NULL, len |-> 0]
NoMret == [kind |-> "none", addr |-> NULL, len |-> 0, errno |-> 0]
NoLast == [len |-> 0, flags |-> {}, os |-> [addr |-> NULL, errno |-> 0],
           live0 |-> 0, munmaps0 |-> 0, nmaps0 |-> 0]

RECURSIVE SumOver(_, _)
SumOver(f, S) ==
    IF S = {} THEN 0
    ELSE LET x == CHOOSE y \in S : TRUE IN f[x] + SumOver(f, S \ {x})

\* the flags Mmap::new passes to mmap()
MmapFlags(use_huge_pages) ==
    {"MAP_ANONYMOUS", "MAP_PRIVATE"} \cup
    (IF use_huge_pages THEN {"MAP_HUGETLB"} ELSE {})

\* what mmap(NULL, len, ...) can do: fail (always, for len = 0), or map the
\* pages at an address that is free
OsMmap(len) ==
    IF len = 0 THEN {[addr |-> MAP_FAILED, errno |-> 22]}
    ELSE {[addr |-> MAP_FAILED, errno |-> 12]} \cup
         {[addr |-> a, errno |-> 0] : a \in {a \in DOMAIN mapped : mapped[a] = 0}}

\* Mmap::new without the MAP_FAILED test
MmapNew_Unchecked(len, os) ==
    IF os.addr = NULL
    THEN [kind |-> "panic", addr |-> NULL, len |-> 0, errno |-> 0]
    ELSE [kind |-> "ok", addr |-> os.addr, len |-> len, errno |-> 0]

\* Mmap::new after the mmap() call: the error, the value, or the panic of
\* `expect` on a null address
MmapNew(len, os) ==
    IF os.addr = MAP_FAILED
    THEN [kind |-> "err", addr |-> NULL, len |-> 0, errno |-> os.errno]
    ELSE IF os.addr = NULL
         THEN [kind |-> "panic", addr |-> NULL, len |-> 0, errno |-> 0]
         ELSE [kind |-> "ok", addr |-> os.addr, len |-> len, errno |-> 0]

\* munmap(addr, len): 0, or -1 for a range that can be no mapping
munmap(addr, len) == IF addr \in DOMAIN mapped /\ len > 0 THEN 0 ELSE -1

MmapNewCall(len, use_huge_pages) ==
    /\ mpc = "idle"
    /\ nmaps < MaxMaps
    /\ \E os \in OsMmap(len) :
         LET r == MmapNew(len, os)
             id == nmaps + 1 IN
         /\ mret' = r
         /\ mlast' = [len |-> len, flags |-> MmapFlags(use_huge_pages), os |-> os,
                      live0 |-> SumOver(live, MapIds),
                      munmaps0 |-> SumOver(munmaps, MapIds), nmaps0 |-> nmaps]
         /\ mapped' = IF os.addr = MAP_FAILED THEN mapped
                       ELSE [mapped EXCEPT ![os.addr] = id]
         /\ IF r.kind = "err"
            THEN /\ mpc' = "ret"
                 /\ UNCHANGED <<region, live, nmaps>>
            ELSE /\ nmaps' = id
                 /\ region' = [region EXCEPT ![id] =
                                 IF r.kind = "ok" THEN [addr |-> r.addr, len |-> r.len]
                                 ELSE [addr |-> os.addr, len |-> len]]
                 /\ live' = [live EXCEPT ![id] = IF r.kind = "ok" THEN 1 ELSE 0]
                 /\ mpc' = IF r.kind = "ok" THEN "ret" ELSE "panicked"
    /\ UNCHANGED <<munmaps, logged>>
    /\ UNCHANGED txVars

\* Mmap::new has returned
MmapReturn ==
    /\ mpc = "ret"
    /\ mpc' = "idle"
    /\ mret' = NoMret
    /\ mlast' = NoLast
    /\ UNCHANGED <<region, live, munmaps, mapped, nmaps, logged>>
    /\ UNCHANGED txVars

\* derive(Clone): a second Mmap value with the same addr and len
MmapClone(id) ==
    /\ mpc = "idle"
    /\ live[id] >= 1
    /\ live[id] + munmaps[id] < MaxVals
    /\ live' = [live EXCEPT ![id] = @ + 1]
    /\ UNCHANGED <<region, munmaps, mapped, nmaps, logged, mpc, mret, mlast>>
    /\ UNCHANGED txVars

\* Drop for Mmap: munmap(self.addr, self.len), an error is logged
MmapDrop(id) ==
    /\ mpc = "idle"
    /\ live[id] >= 1
    /\ live' = [live EXCEPT ![id] = @ - 1]
    /\ munmaps' = [munmaps EXCEPT ![id] = @ + 1]
    /\ IF munmap(region[id].addr, region[id].len) = 0
       THEN /\ mapped' = [mapped EXCEPT ![region[id].addr] = 0]
            /\ UNCHANGED logged
       ELSE /\ logged' = logged + 1
            /\ UNCHANGED mapped
    /\ UNCHANGED <<region, nmaps, mpc, mret, mlast>>
    /\ UNCHANGED txVars

\* -------------------------------------------------------------------- Init
Init ==
    /\ size \in Sizes
    /\ producer = 0
    /\ consumer = 0
    /\ flags = 0
    /\ descs = [s \in 0..(size - 1) |-> ZeroDesc]
    /\ cached_prod = 0
    /\ cached_cons = size
    /\ pc = "idle"
    /\ op = "none"
    /\ frames = <<>>
    /\ idx = 0
    /\ cnt = 0
    /\ k = 0
    /\ ret = NoRet
    /\ prod0 = 0
    /\ free0 = 0
    /\ ring0 = NoRing
    /\ nwrites = 0
    /\ flag_read = FALSE
    /\ wakeups = 0
    /\ sent = NoSend
    /\ own = [f \in Frames |-> "empty"]
    /\ flen = [f \in Frames |-> 0]
    /\ comp = <<>>
    /\ asleep = FALSE
    /\ region = [i \in MapIds |-> NoRegion]
    /\ live = [i \in MapIds |-> 0]
    /\ munmaps = [i \in MapIds |-> 0]
    /\ mapped = [a \in {NULL} \cup Addrs |-> 0]
    /\ nmaps = 0
    /\ logged = 0
    /\ mpc = "idle"
    /\ mret = NoMret
    /\ mlast = NoLast

\* ------------------------------------------------------- TxQueue::produce
\* the tail shared by produce's return paths: produce returns n; inside
\* produce_and_wakeup control goes on to the needs_wakeup() test
AfterProduce(o, n) ==
    IF o = "produce"
    THEN /\ pc' = "ret"
         /\ ret' = [op |-> "produce", ok |-> TRUE, val |-> n]
    ELSE /\ pc' = "needs_wakeup"
         /\ ret' = NoRet

\* produce with the refresh of the cached consumer cursor hoisted above the
\* nb == 0 early return
ProduceCall_HoistedRefresh(fs, o) ==
    /\ pc = "idle"
    /\ op' = o
    /\ frames' = fs
    /\ k' = 0
    /\ prod0' = producer
    /\ free0' = FreeSlots
    /\ ring0' = [descs |-> descs, cached_prod |-> cached_prod,
                 cached_cons |-> cached_cons]
    /\ nwrites' = 0
    /\ flag_read' = FALSE
    /\ wakeups' = 0
    /\ sent' = NoSend
    /\ IF Len(fs) = 0
       THEN /\ cnt' = 0
            /\ idx' = 0
            /\ cached_cons' = Add32(consumer, size)
            /\ UNCHANGED cached_prod
            /\ AfterProduce(o, 0)
       ELSE LET r == xsk_ring_prod__reserve(cached_prod, cached_cons,
                                            consumer, size, Len(fs)) IN
            /\ cnt' = r.cnt
            /\ idx' = r.idx
            /\ cached_prod' = r.cached_prod
            /\ cached_cons' = r.cached_cons
            /\ IF r.cnt > 0
               THEN pc' = "write" /\ ret' = NoRet
               ELSE AfterProduce(o, 0)
    /\ UNCHANGED <<size, producer, consumer, flags, descs>>
    /\ UNCHANGED envVars

\* entry of produce (directly or from produce_and_wakeup): the nb == 0 early
\* return, else the reservation
ProduceEnter(fs, o) ==
    /\ op' = o
    /\ frames' = fs
    /\ k' = 0
    /\ prod0' = producer
    /\ free0' = FreeSlots
    /\ ring0' = [descs |-> descs, cached_prod |-> cached_prod,
                 cached_cons |-> cached_cons]
    /\ nwrites' = 0
    /\ flag_read' = FALSE
    /\ wakeups' = 0
    /\ sent' = NoSend
    /\ IF Len(fs) = 0
       THEN /\ cnt' = 0
            /\ idx' = 0
            /\ UNCHANGED <<cached_prod, cached_cons>>
            /\ AfterProduce(o, 0)
       ELSE LET r == xsk_ring_prod__reserve(cached_prod, cached_cons,
                                            consumer, size, Len(fs)) IN
            /\ cnt' = r.cnt
            /\ idx' = r.idx
            /\ cached_prod' = r.cached_prod
            /\ cached_cons' = r.cached_cons
            /\ IF r.cnt > 0
               THEN pc' = "write" /\ ret' = NoRet
               ELSE AfterProduce(o, 0)
    /\ UNCHANGED <<size, producer, consumer, flags, descs>>
    /\ UNCHANGED envVars

\* the loop body without `idx += 1`: every frame goes to the first slot
ProduceWrite_NoIncrement ==
    /\ pc = "write"
    /\ k < cnt
    /\ descs' = [descs EXCEPT ![Slot(idx, size)] = write_xdp_desc(frames[k + 1])]
    /\ UNCHANGED idx
    /\ k' = k + 1
    /\ pc' = IF k + 1 = cnt THEN "submit" ELSE "write"
    /\ UNCHANGED <<size, producer, consumer, flags, cached_prod, cached_cons>>
    /\ nwrites' = nwrites + 1
    /\ UNCHANGED <<op, frames, cnt, ret>>
    /\ UNCHANGED <<prod0, free0, ring0, flag_read, wakeups, sent>>
    /\ UNCHANGED envVars

\* the loop body with a submit of its own: each descriptor is published as it
\* is written, ahead of the submit that follows the loop
ProduceWrite_PublishEach ==
    /\ pc = "write"
    /\ k < cnt
    /\ descs' = [descs EXCEPT ![Slot(idx, size)] = write_xdp_desc(frames[k + 1])]
    /\ producer' = xsk_ring_prod__submit(producer, 1)
    /\ idx' = Add32(idx, 1)
    /\ k' = k + 1
    /\ pc' = IF k + 1 = cnt THEN "submit" ELSE "write"
    /\ UNCHANGED <<size, consumer, flags, cached_prod, cached_cons>>
    /\ nwrites' = nwrites + 1
    /\ UNCHANGED <<op, frames, cnt, ret>>
    /\ UNCHANGED <<prod0, free0, ring0, flag_read, wakeups, sent>>
    /\ UNCHANGED envVars

\* a caller that is idle calls produce or produce_and_wakeup
ProduceCall(fs, o) ==
    /\ pc = "idle"
    /\ ProduceEnter(fs, o)

\* a caller in a retry loop: produce returned 0 for its batch, it calls
\* produce again with the same frames
Retry ==
    /\ pc = "ret" /\ op = "produce"
    /\ ret.val = 0 /\ frames # <<>>
    /\ ProduceEnter(frames, "produce")

\* one iteration of the `for` loop: write the descriptor, then idx += 1
ProduceWrite ==
    /\ pc = "write"
    /\ k < cnt
    /\ descs' = [descs EXCEPT ![Slot(idx, size)] = write_xdp_desc(frames[k + 1])]
    /\ \/ \* `idx += 1` wraps, or does not overflow
          /\ idx' = Add32(idx, 1)
          /\ k' = k + 1
          /\ pc' = IF k + 1 = cnt THEN "submit" ELSE "write"
       \/ \* `idx += 1` overflows in a build with overflow checks (the debug
          \* profile): attempt to add with overflow
          /\ idx + 1 >= U32
          /\ pc' = "panicked"
          /\ UNCHANGED <<idx, k>>
    /\ UNCHANGED <<size, producer, consumer, flags, cached_prod, cached_cons>>
    /\ nwrites' = nwrites + 1
    /\ UNCHANGED <<op, frames, cnt, ret>>
    /\ UNCHANGED <<prod0, free0, ring0, flag_read, wakeups, sent>>
    /\ UNCHANGED envVars

\* xsk_ring_prod__submit, after which the accepted frames are the kernel's
ProduceSubmit ==
    /\ pc = "submit"
    /\ producer' = xsk_ring_prod__submit(producer, cnt)
    /\ own' = [f \in Frames |->
                 IF \E i \in 1..cnt : frames[i].addr = FrameAddr(f)
                 THEN "kernel" ELSE own[f]]
    /\ AfterProduce(op, cnt)
    /\ UNCHANGED <<size, consumer, flags, descs, cached_prod, cached_cons>>
    /\ UNCHANGED <<op, frames, idx, cnt, k>>
    /\ UNCHANGED ghostVars
    /\ UNCHANGED <<flen, comp, asleep, mmapVars>>

\* ---------------------------------------------- TxQueue::produce_and_wakeup
\* the flag test skipped when produce accepted nothing
PawNeedsWakeup_SkipOnZero ==
    /\ pc = "needs_wakeup"
    /\ flag_read' = (cnt > 0 /\ needs_wakeup(flags))
    /\ IF cnt > 0 /\ needs_wakeup(flags)
       THEN pc' = "wakeup" /\ ret' = NoRet
       ELSE /\ pc' = "ret"
            /\ ret' = [op |-> "produce_and_wakeup", ok |-> TRUE, val |-> cnt]
    /\ frames' = <<>>
    /\ idx' = 0
    /\ k' = 0
    /\ free0' = 0
    /\ ring0' = NoRing
    /\ nwrites' = 0
    /\ UNCHANGED ringVars
    /\ UNCHANGED <<op, cnt>>
    /\ UNCHANGED <<prod0, wakeups, sent>>
    /\ UNCHANGED envVars

\* `if self.needs_wakeup()`
PawNeedsWakeup ==
    /\ pc = "needs_wakeup"
    /\ flag_read' = needs_wakeup(flags)
    /\ IF needs_wakeup(flags)
       THEN pc' = "wakeup" /\ ret' = NoRet
       ELSE /\ pc' = "ret"
            /\ ret' = [op |-> "produce_and_wakeup", ok |-> TRUE, val |-> cnt]
    \* produce has returned: its frame is popped, cnt is kept
    /\ frames' = <<>>
    /\ idx' = 0
    /\ k' = 0
    /\ free0' = 0
    /\ ring0' = NoRing
    /\ nwrites' = 0
    /\ UNCHANGED ringVars
    /\ UNCHANGED <<op, cnt>>
    /\ UNCHANGED <<prod0, wakeups, sent>>
    /\ UNCHANGED envVars

\* `self.wakeup()?` then `Ok(cnt)`
PawWakeup ==
    /\ pc = "wakeup"
    /\ \E s \in SendOutcomes :
         LET w == wakeup(s.sret, s.errno) IN
         /\ sent' = s
         /\ ret' = IF w.ok
                   THEN [op |-> "produce_and_wakeup", ok |-> TRUE, val |-> cnt]
                   ELSE [op |-> "produce_and_wakeup", ok |-> FALSE, val |-> w.val]
         \* a sendto() that succeeded has run the kernel's transmit path
         /\ asleep' = IF s.sret >= 0 THEN FALSE ELSE asleep
    /\ wakeups' = wakeups + 1
    /\ pc' = "ret"
    /\ UNCHANGED ringVars
    /\ UNCHANGED <<op, frames, idx, cnt, k>>
    /\ UNCHANGED <<prod0, free0, ring0, nwrites, flag_read>>
    /\ UNCHANGED <<own, flen, comp, mmapVars>>

\* the call returns to its caller: its frame is popped
Return ==
    /\ pc = "ret"
    /\ pc' = "idle"
    /\ op' = "none"
    /\ frames' = <<>>
    /\ idx' = 0
    /\ cnt' = 0
    /\ k' = 0
    /\ ret' = NoRet
    /\ prod0' = 0
    /\ free0' = 0
    /\ ring0' = NoRing
    /\ nwrites' = 0
    /\ flag_read' = FALSE
    /\ wakeups' = 0
    /\ sent' = NoSend
    /\ UNCHANGED ringVars
    /\ UNCHANGED envVars

\* the caller in a retry loop leaves it when its batch was accepted
ReturnAccepted ==
    /\ ret.val > 0
    /\ Return

\* a call of a method that takes no frames starts from a clean frame
EnterCall(o) ==
    /\ pc = "idle"
    /\ pc' = "ret"
    /\ op' = o
    /\ prod0' = producer
    /\ free0' = FreeSlots
    /\ ring0' = [descs |-> descs, cached_prod |-> cached_prod,
                 cached_cons |-> cached_cons]
    /\ UNCHANGED <<frames, idx, cnt, k, nwrites, flag_read>>
    /\ UNCHANGED ringVars
    /\ UNCHANGED <<own, flen, comp, mmapVars>>

\* ---------------------------------------------------------- TxQueue::wakeup
WakeupCall ==
    /\ EnterCall("wakeup")
    /\ wakeups' = 1
    /\ \E s \in SendOutcomes :
         /\ sent' = s
         /\ ret' = [op |-> "wakeup", ok |-> wakeup(s.sret, s.errno).ok,
                    val |-> wakeup(s.sret, s.errno).val]
         /\ asleep' = IF s.sret >= 0 THEN FALSE ELSE asleep

\* ---------------------------------------------------- TxQueue::needs_wakeup
\* a test of the flag that also takes it down (test-and-clear)
NeedsWakeupCall_Clearing ==
    /\ pc = "idle"
    /\ pc' = "ret"
    /\ op' = "needs_wakeup"
    /\ prod0' = producer
    /\ free0' = FreeSlots
    /\ ring0' = [descs |-> descs, cached_prod |-> cached_prod,
                 cached_cons |-> cached_cons]
    /\ ret' = [op |-> "needs_wakeup", ok |-> TRUE,
               val |-> IF needs_wakeup(flags) THEN 1 ELSE 0]
    /\ flags' = 0
    /\ UNCHANGED <<size, producer, consumer, descs, cached_prod, cached_cons>>
    /\ UNCHANGED <<frames, idx, cnt, k, nwrites, flag_read, wakeups, sent>>
    /\ UNCHANGED envVars

NeedsWakeupCall ==
    /\ EnterCall("needs_wakeup")
    /\ ret' = [op |-> "needs_wakeup", ok |-> TRUE,
               val |-> IF needs_wakeup(flags) THEN 1 ELSE 0]
    /\ UNCHANGED <<wakeups, sent, asleep>>

\* ------------------------------------------------------------ TxQueue::poll
\* Fd::poll_write: TRUE when the socket became writable within the timeout,
\* FALSE when the timeout elapsed, an error when poll() failed
poll_write(timeout, revents, errno) ==
    IF errno # 0 THEN [ok |-> FALSE, val |-> errno]
    ELSE [ok |-> TRUE, val |-> IF revents THEN 1 ELSE 0]

PollCall(timeout) ==
    /\ EnterCall("poll")
    /\ \E revents \in BOOLEAN : \E errno \in {0} \cup OtherErrnos :
         \* without a timeout poll() returns only when ready or failed
         /\ (timeout < 0 /\ errno = 0) => revents
         /\ ret' = [op |-> "poll", ok |-> poll_write(timeout, revents, errno).ok,
                    val |-> poll_write(timeout, revents, errno).val]
    /\ UNCHANGED <<wakeups, sent, asleep>>

\* ------------------------------------------------------------ the kernel
\* the kernel takes the descriptor at the consumer cursor and, standing in
\* for transmission, echoes its offset onto the completion ring.  What the
\* slot holds afterwards is dead data; the stand-in scrubs it, so that a
\* later read of a slot nobody wrote shows as the zero descriptor
ConsumeOne ==
    /\ ~asleep
    /\ consumer # producer
    /\ comp' = Append(comp, descs[Slot(consumer, size)].addr)
    /\ descs' = [descs EXCEPT ![Slot(consumer, size)] = ZeroDesc]
    /\ consumer' = Add32(consumer, 1)
    /\ UNCHANGED <<size, producer, flags, cached_prod, cached_cons>>
    /\ UNCHANGED callVars
    /\ UNCHANGED ghostVars
    /\ UNCHANGED <<own, flen, asleep, mmapVars>>

\* a consume step at a point of the producer where it is not a mere
\* reordering of one taken earlier or later
KernelConsume ==
    /\ pc \in {"idle", "write", "submit", "panicked"}
    /\ ConsumeOne

\* the kernel, awake, publishes or withdraws XDP_RING_NEED_WAKEUP
FlipFlag ==
    /\ ~asleep
    /\ flags' = 1 - flags
    /\ UNCHANGED <<size, producer, consumer, descs, cached_prod, cached_cons>>
    /\ UNCHANGED callVars
    /\ UNCHANGED ghostVars
    /\ UNCHANGED envVars

\* a flag change at a point of the producer where it can be told apart
KernelSetFlag ==
    /\ pc \in {"idle", "needs_wakeup", "panicked"}
    /\ FlipFlag

\* the kernel's transmit path goes to sleep: it has published the flag, then
\* looked at the ring and found nothing to send
KernelSleep ==
    /\ ~asleep
    /\ flags # 0
    /\ consumer = producer
    /\ asleep' = TRUE
    /\ UNCHANGED ringVars
    /\ UNCHANGED callVars
    /\ UNCHANGED ghostVars
    /\ UNCHANGED <<own, flen, comp, mmapVars>>

\* the transmit path runs again without a wakeup (an interrupt, receive work)
KernelWake ==
    /\ asleep
    /\ asleep' = FALSE
    /\ UNCHANGED ringVars
    /\ UNCHANGED callVars
    /\ UNCHANGED ghostVars
    /\ UNCHANGED <<own, flen, comp, mmapVars>>

\* ------------------------------------------------- the owner of the frames
\* the caller writes a payload into a frame it owns
FillFrame(f, l) ==
    /\ pc = "idle"
    /\ own[f] = "empty"
    /\ own' = [own EXCEPT ![f] = "filled"]
    /\ flen' = [flen EXCEPT ![f] = l]
    /\ UNCHANGED ringVars
    /\ UNCHANGED callVars
    /\ UNCHANGED ghostVars
    /\ UNCHANGED <<comp, asleep, mmapVars>>

\* the caller takes a completed frame off the completion ring
CompConsume ==
    /\ pc = "idle"
    /\ comp # <<>>
    /\ own' = [own EXCEPT ![FrameOf(Head(comp))] = "empty"]
    /\ flen' = [flen EXCEPT ![FrameOf(Head(comp))] = 0]
    /\ comp' = Tail(comp)
    /\ UNCHANGED ringVars
    /\ UNCHANGED callVars
    /\ UNCHANGED ghostVars
    /\ UNCHANGED <<asleep, mmapVars>>

NextTx ==
    \/ \E fs \in Batches : \E o \in {"produce", "produce_and_wakeup"} :
         ProduceCall(fs, o)
    \/ ProduceWrite
    \/ ProduceSubmit
    \/ PawNeedsWakeup
    \/ PawWakeup
    \/ Return
    \/ WakeupCall
    \/ NeedsWakeupCall
    \/ \E t \in PollTimeouts : PollCall(t)
    \/ KernelConsume
    \/ KernelSetFlag
    \/ \E f \in Frames : \E l \in Lens : FillFrame(f, l)
    \/ CompConsume

NextMmap ==
    \/ \E len \in MapLens : \E h \in BOOLEAN : MmapNewCall(len, h)
    \/ MmapReturn
    \/ \E id \in MapIds : MmapClone(id)
    \/ \E id \in MapIds : MmapDrop(id)

\* produce_and_wakeup against a kernel that sleeps, every kernel step free to
\* fall anywhere between the producer's
NextSleep ==
    \/ \E fs \in Batches : ProduceCall(fs, "produce_and_wakeup")
    \/ ProduceWrite
    \/ ProduceSubmit
    \/ PawNeedsWakeup
    \/ PawWakeup
    \/ Return
    \/ ConsumeOne
    \/ FlipFlag
    \/ KernelSleep
    \/ KernelWake
    \/ \E f \in Frames : \E l \in Lens : FillFrame(f, l)
    \/ CompConsume

\* a caller that offers a batch of at most the capacity and retries it until
\* it is accepted, against a kernel that keeps draining
NextRetry ==
    \/ \E fs \in Batches : Len(fs) \in 1..size /\ ProduceCall(fs, "produce")
    \/ Retry
    \/ ProduceWrite
    \/ ProduceSubmit
    \/ ReturnAccepted
    \/ ConsumeOne
    \/ \E f \in Frames : \E l \in Lens : FillFrame(f, l)
    \/ CompConsume

\* the transmit queue with its kernel and its caller
Spec == Init /\ [][NextTx]_vars

\* the memory mappings
\* the mappings of a process whose queue is not in use
InitMmap == Init /\ size = 1

SpecMmap == InitMmap /\ [][NextMmap]_vars

\* the retry loop: the kernel keeps consuming while there is something on
\* the ring, the caller keeps calling, a call in progress runs on
SpecRetry ==
    /\ Init
    /\ [][NextRetry]_vars
    /\ WF_vars(ConsumeOne)
    /\ WF_vars(Retry)
    /\ WF_vars(ProduceWrite)
    /\ WF_vars(ProduceSubmit)

\* the transmit queue with a kernel that sleeps
SpecSleep == Init /\ [][NextSleep]_vars

\* ================================================================ claims
\* produce has returned (to the caller, or inside produce_and_wakeup) and the
\* call's frame is still there; what it returned is cnt
ProduceDone ==
    \/ pc = "ret" /\ op = "produce"
    \/ pc = "needs_wakeup" /\ op = "produce_and_wakeup"

\* ring slots the kernel may read: positions consumer .. producer - 1
Published == {Slot(Add32(consumer, i), size) : i \in 0..(InFlight - 1)}

\* C1: all or nothing.  When produce is called with more frames than the ring
\* has free slots (capacity - (producer - consumer) at the reservation), it
\* returns 0, stores no descriptor and leaves the producer cursor where it was.
C1_AllOrNothing ==
    (ProduceDone /\ Len(frames) > free0) =>
        /\ cnt = 0
        /\ (op = "produce" => ret = [op |-> "produce", ok |-> TRUE, val |-> 0])
        /\ nwrites = 0
        /\ descs = ring0.descs
        /\ producer = prod0

\* a produce call that found the ring partly full, with some room but not enough
C1_Witness ==
    /\ pc = "ret" /\ op = "produce"
    /\ free0 > 0 /\ free0 < size /\ Len(frames) > free0
    /\ ret.val = 0

\* C2 as stated: on a shortfall produce reserves the free slots and returns
\* their number.
C2_PartialReservation ==
    (ProduceDone /\ Len(frames) > free0) =>
        /\ cnt = free0
        /\ producer = Add32(prod0, free0)

\* C2 amended: there is no partial reservation.  produce returns either 0 or
\* len(frames); on a shortfall it returns 0 and every frame of the batch stays
\* with the caller, filled, with no published descriptor referring to it.
C2_NoPartialReservation ==
    ProduceDone =>
        /\ cnt \in {0, Len(frames)}
        /\ Len(frames) > free0 =>
             \A i \in 1..Len(frames) :
                /\ own[FrameOf(frames[i].addr)] = "filled"
                /\ \A sl \in Published : descs[sl].addr # frames[i].addr
                                         \/ descs[sl].len = 0

\* the shortfall of the scenario, scaled: one frame in flight, one slot free,
\* two frames offered, none taken
C2_Witness ==
    /\ ProduceDone
    /\ InFlight = 1 /\ free0 = 1 /\ Len(frames) = 2
    /\ cnt = 0
    /\ \A i \in 1..2 : own[FrameOf(frames[i].addr)] = "filled"

\* C3: the ring is never over-committed: producer - consumer (modulo the word)
\* is between 0 and the capacity, in every state of every interleaving.
C3_NeverOverCommitted ==
    /\ Sub32(producer, consumer) >= 0
    /\ Sub32(producer, consumer) <= size

\* the ring is full across a wrap of the producer cursor, inside a call
C3_Witness ==
    /\ size > 1
    /\ Sub32(producer, consumer) = size
    /\ producer < consumer
    /\ pc = "needs_wakeup"

\* C4: produce succeeds whenever there is room: a call with
\* 1 <= len(frames) <= free slots returns len(frames) and advances the producer
\* cursor by len(frames).  A call that panics has done neither.
C4_SucceedsWithRoom ==
    (pc # "idle" /\ 1 <= Len(frames) /\ Len(frames) <= free0) =>
        /\ pc # "panicked"
        /\ ProduceDone =>
             /\ cnt = Len(frames)
             /\ (op = "produce" => ret.val = Len(frames))
             /\ producer = Add32(prod0, Len(frames))

\* C5: produce with no frames returns 0 and leaves the ring alone: producer
\* cursor, cached cursors and every slot are what they were.
C5_EmptyIsNoOp ==
    (ProduceDone /\ Len(frames) = 0) =>
        /\ cnt = 0
        /\ (op = "produce" => ret = [op |-> "produce", ok |-> TRUE, val |-> 0])
        /\ producer = prod0
        /\ cached_prod = ring0.cached_prod
        /\ cached_cons = ring0.cached_cons
        /\ descs = ring0.descs
        /\ nwrites = 0

\* produce(&[]) has returned on a partly full ring whose cached consumer
\* cursor is stale
C5_Witness ==
    /\ pc = "ret" /\ op = "produce" /\ frames = <<>>
    /\ InFlight > 0 /\ InFlight < size
    /\ cached_cons # Add32(consumer, size)
    /\ ret.val = 0

\* C6: a produce_and_wakeup call issues one sendto() when the kernel's
\* needs-wakeup flag is set and none when it is clear (and then returns the
\* produced count).
C6_OneWakeupIffFlag ==
    (pc = "ret" /\ op = "produce_and_wakeup") =>
        /\ flags # 0 => wakeups = 1
        /\ flags = 0 => /\ wakeups = 0
                        /\ ret = [op |-> "produce_and_wakeup", ok |-> TRUE,
                                  val |-> cnt]
        /\ flag_read = (flags # 0)

\* the scenario, scaled: flag clear, a full batch on an empty ring, no sendto()
C6_Witness ==
    /\ pc = "ret" /\ op = "produce_and_wakeup"
    /\ flags = 0 /\ size > 1 /\ InFlight = size
    /\ ret.ok /\ ret.val = size /\ wakeups = 0

\* C7: wakeup succeeds when sendto() succeeded or failed with ENOBUFS, EAGAIN,
\* EBUSY or ENETDOWN, and returns the errno of every other failure.
C7_WakeupErrnos ==
    (pc = "ret" /\ wakeups = 1) =>
        /\ (sent.sret >= 0 \/ sent.errno \in {105, 11, 16, 100}) =>
              /\ ret.ok
              /\ op = "wakeup" => ret.val = 0
        /\ (sent.sret < 0 /\ sent.errno \notin {105, 11, 16, 100}) =>
              /\ ~ret.ok
              /\ ret.val = sent.errno

\* wakeup() swallowed ENETDOWN
C7_Witness ==
    /\ pc = "ret" /\ op = "wakeup"
    /\ sent.sret < 0 /\ sent.errno = ENETDOWN
    /\ ret.ok

\* occurrences of x in sequence q
Count(q, x) == Cardinality({i \in 1..Len(q) : q[i] = x})

\* C8: round trip through an echoing consumer.  Every frame the queue accepted
\* and the caller has not taken back is, with its own offset, either still
\* published on the ring or on the completion ring, once; nothing else is on
\* the completion ring or published.
C8_RoundTrip ==
    /\ \A f \in Frames :
         Count(comp, FrameAddr(f)) +
         Cardinality({sl \in Published : descs[sl].addr = FrameAddr(f)
                                         /\ descs[sl].len # 0})
           = IF own[f] = "kernel" THEN 1 ELSE 0
    /\ \A i \in 1..Len(comp) : \E f \in Frames : comp[i] = FrameAddr(f)
    /\ \A sl \in Published : descs[sl].len # 0

\* two frames submitted out of address order have come back in that order
C8_Witness ==
    /\ Len(comp) = 2
    /\ comp[1] = FrameAddr(2) /\ comp[2] = FrameAddr(0)
    /\ own[0] = "kernel" /\ own[2] = "kernel"

\* C9: every mapping is unmapped exactly once, at the end of its lifetime:
\* over create, clone and drop, munmap() is issued once per mapping, never
\* twice for one range and never while a live Mmap value still holds it.
C9_UnmappedExactlyOnce ==
    \A id \in MapIds :
        /\ munmaps[id] <= 1
        /\ munmaps[id] >= 1 => live[id] = 0
        /\ (id <= nmaps /\ region[id].addr # NULL /\ live[id] = 0) => munmaps[id] = 1

\* C10: a failed Mmap::new leaves nothing behind: it returns the OS error, no
\* Mmap value and no mapping is added, no munmap() is issued; a successful one
\* returns a value with a non-null address and the requested length.
C10_NewAllOrNothing ==
    /\ mpc = "ret" =>
         /\ mret.kind \in {"ok", "err"}
         /\ (mret.kind = "err") = (mlast.os.addr = MAP_FAILED)
         /\ mret.kind = "err" =>
              /\ mret.errno = mlast.os.errno
              /\ nmaps = mlast.nmaps0
              /\ SumOver(live, MapIds) = mlast.live0
              /\ \A a \in DOMAIN mapped : mapped[a] <= nmaps
         /\ mret.kind = "ok" =>
              /\ mret.addr # NULL /\ mret.addr # MAP_FAILED
              /\ mret.len = mlast.len
              /\ nmaps = mlast.nmaps0 + 1
              /\ region[nmaps] = [addr |-> mret.addr, len |-> mlast.len]
              /\ live[nmaps] = 1
              /\ mapped[mret.addr] = nmaps
         /\ SumOver(munmaps, MapIds) = mlast.munmaps0
    \* no value, live or dropped, was ever made of a failed attempt
    /\ \A id \in MapIds :
         (live[id] > 0 \/ munmaps[id] > 0) => region[id].addr \in Addrs
    /\ logged = 0

\* Mmap::new fails for want of memory while an earlier mapping is alive
C10_Witness ==
    /\ mpc = "ret" /\ mret.kind = "err"
    /\ mlast.len > 0 /\ mlast.os.errno = 12
    /\ nmaps = 1 /\ live[1] = 1

\* C11: publication ordering.  Inside a produce call the producer cursor stays
\* where it was until every reserved descriptor is written, and the one store
\* that moves it comes after the last write; so, in every interleaving, each
\* slot the kernel may read (consumer .. producer - 1) holds the whole
\* descriptor of a frame the queue accepted, never a reserved slot still
\* unpublished.
C11_PublicationOrdering ==
    /\ pc \in {"write", "submit", "panicked"} =>
         /\ producer = prod0
         /\ nwrites <= cnt
         /\ pc = "submit" => nwrites = cnt
    /\ \A sl \in Published :
         \E f \in Frames :
            /\ own[f] = "kernel"
            /\ descs[sl] = write_xdp_desc(FrameRec(f))
            /\ descs[sl].len = FrameSize

\* the kernel has a published descriptor to read while a reserved slot has
\* been written and is not yet published
C11_Witness ==
    /\ pc = "submit" /\ cnt = 1 /\ nwrites = 1
    /\ InFlight = 1 /\ size > 1
    /\ Slot(Sub32(idx, 1), size) \notin Published
    /\ descs[Slot(Sub32(idx, 1), size)].len # 0

\* C12: no lost wakeup.  produce_and_wakeup tests the needs-wakeup flag with
\* the producer cursor already advanced by what produce accepted; so when,
\* after the test, the kernel is asleep with published descriptors it has not
\* consumed, the call is about to issue its sendto() or has issued it.
C12_NoLostWakeup ==
    (op = "produce_and_wakeup" /\ pc \in {"needs_wakeup", "wakeup", "ret"}) =>
        /\ producer = Add32(prod0, cnt)
        /\ (pc # "needs_wakeup" /\ asleep /\ InFlight > 0) =>
              /\ flag_read
              /\ pc = "wakeup" \/ wakeups = 1

\* the kernel went to sleep on an empty ring while the call was under way;
\* the call has since published a frame and found the flag set
C12_Witness ==
    /\ op = "produce_and_wakeup" /\ pc = "wakeup"
    /\ asleep /\ cnt > 0 /\ InFlight = cnt
    /\ flag_read /\ wakeups = 0

\* the kernel has frame f: a published descriptor or a completion names it
KernelHolds(f) ==
    \/ \E sl \in Published : descs[sl].addr = FrameAddr(f) /\ descs[sl].len # 0
    \/ \E i \in 1..Len(comp) : comp[i] = FrameAddr(f)

\* the frames of the batch that the call in progress accepted
Accepted == {FrameOf(frames[i].addr) : i \in 1..cnt}

\* every frame is in one of the three states, kernel-owned exactly while the
\* kernel has it; a batch that was not accepted is still filled and the user's
C13_Owner ==
    /\ \A f \in Frames :
         /\ own[f] \in {"empty", "filled", "kernel"}
         /\ (own[f] = "kernel") = KernelHolds(f)
    /\ (ProduceDone /\ cnt = 0) =>
         \A i \in 1..Len(frames) : own[FrameOf(frames[i].addr)] = "filled"
    /\ pc \in {"write", "submit", "panicked"} =>
         \A i \in 1..Len(frames) : own[FrameOf(frames[i].addr)] = "filled"

\* the moves of one frame: to the kernel only at the store of the producer
\* cursor and only if accepted; back to the user only off the completion
\* ring; the publication takes all the accepted frames at once
C13_Step ==
    /\ \A f \in Frames :
         /\ (own[f] # "kernel" /\ own'[f] = "kernel") =>
               /\ own[f] = "filled"
               /\ pc = "submit" /\ f \in Accepted
               /\ producer' = Add32(producer, cnt)
         /\ (own[f] = "kernel" /\ own'[f] # "kernel") =>
               /\ own'[f] = "empty"
               /\ comp # <<>> /\ Head(comp) = FrameAddr(f)
               /\ comp' = Tail(comp)
         /\ (own[f] = "filled" /\ own'[f] # "filled") => own'[f] = "kernel"
    /\ producer' # producer => \A f \in Accepted : own'[f] = "kernel"

\* C13: the ownership state machine of a frame.  Under the caller discipline
\* each frame is user-owned-empty, user-owned-filled or kernel-owned; an
\* accepted frame becomes the kernel's at the cursor publication and the
\* user's again only through the completion ring; a frame that was not
\* accepted stays user-owned-filled.
C13_FrameOwnership == []C13_Owner /\ [][C13_Step]_vars

\* a batch was turned away while one frame is published and another has come
\* back on the completion ring
C13_Witness ==
    /\ pc = "ret" /\ op = "produce" /\ cnt = 0 /\ Len(frames) > 0
    /\ InFlight > 0 /\ comp # <<>>
    /\ \A i \in 1..Len(frames) : own[FrameOf(frames[i].addr)] = "filled"

\* C14: retry eventually succeeds.  A caller that was turned away with 0 for a
\* batch of at most the capacity and keeps calling produce with that batch,
\* while the kernel keeps draining, is in the end returned the length of the
\* batch; and produce never reports an error.
C14_RetrySucceeds ==
    /\ [](op = "produce" => ret.ok)
    /\ (pc = "ret" /\ op = "produce" /\ ret.val = 0 /\ Len(frames) \in 1..size)
          ~> (pc = "ret" /\ op = "produce" /\ ret.val = Len(frames)
              /\ Len(frames) >= 1)

\* the ring slots the call in progress reserved: idx .. idx + cnt - 1, masked
Reserved == {Slot(Add32(prod0, j), size) : j \in 0..(cnt - 1)}

\* what the consumer is still to hand back, oldest first: the completion ring,
\* then the published descriptors from the consumer cursor on
Pipeline ==
    comp \o [i \in 1..InFlight |-> descs[Slot(Add32(consumer, i - 1), size)].addr]

\* inside and at the end of a produce call that reserved cnt slots at idx
C15_Slots ==
    (op \in {"produce", "produce_and_wakeup"}
       /\ pc \in {"write", "submit", "panicked", "ret", "needs_wakeup"}
       /\ (pc = "ret" => op = "produce")) =>
        \* the j-th stored descriptor is the j-th frame's, at slot idx + j
        /\ \A j \in 0..(nwrites - 1) :
             descs[Slot(Add32(prod0, j), size)] =
               [addr |-> frames[j + 1].addr, len |-> frames[j + 1].len,
                options |-> frames[j + 1].options]
        /\ nwrites <= cnt
        /\ pc \in {"write", "submit"} =>
             idx = Add32(prod0, k) /\ nwrites = k
        /\ ProduceDone => nwrites = cnt
        \* a slot that was not reserved was not stored to: it holds what it
        \* held, unless the kernel has consumed it since
        /\ \A sl \in (0..(size - 1)) \ Reserved :
             descs[sl] \in {ring0.descs[sl], ZeroDesc}

\* the publication appends the accepted frames, in the order of the batch,
\* behind everything published by earlier calls
C15_Order ==
    producer' # producer =>
        Pipeline' = Pipeline \o [i \in 1..cnt |-> frames[i].addr]

\* C15: descriptor order and content.  When produce accepts cnt frames from
\* reserved index idx, input frame k goes to slot (idx + k) mod capacity with
\* its offset, length and options, no other slot is stored to, and the
\* consumer is given the frames in the order they were passed, within a call
\* and from one call to the next.
C15_DescriptorOrder == []C15_Slots /\ [][C15_Order]_vars

\* a batch of two, passed out of address order, reserved at an odd cursor:
\* the first frame is in slot 1, the second in slot 0
C15_Witness ==
    /\ pc = "ret" /\ op = "produce" /\ cnt = 2 /\ size = 2
    /\ prod0 % 2 = 1
    /\ frames[1].addr > frames[2].addr
    /\ descs[1].addr = frames[1].addr /\ descs[0].addr = frames[2].addr

\* C16: cursor wrap-around.  Cursors are words that wrap, the slot is the
\* cursor modulo the capacity, and produce does the same for every value of
\* the producer cursor it starts from: it does not fault, what it returns
\* depends on the free space alone, it stores to the reserved slots and
\* advances the cursor, modulo the word, by what it returns.
C16_WrapAround ==
    /\ pc # "panicked"
    /\ ProduceDone =>
         /\ cnt = (IF Len(frames) >= 1 /\ Len(frames) <= free0
                   THEN Len(frames) ELSE 0)
         /\ producer = Add32(prod0, cnt)
         /\ \A j \in 0..(cnt - 1) :
              descs[Slot(Add32(prod0, j), size)].addr = frames[j + 1].addr

\* a step of the TxQueue handle is one that moves its thread
TxStep == callVars' # callVars

\* who stores to what
C17_Step ==
    \* the handle leaves the consumer cursor and the flag alone
    /\ TxStep => consumer' = consumer /\ flags' = flags
    \* the consumer cursor moves by the kernel's consume only, one slot on
    /\ consumer' # consumer => ~TxStep /\ consumer' = Add32(consumer, 1)
    \* the producer cursor moves by produce's submit only
    /\ producer' # producer =>
          /\ TxStep /\ pc = "submit"
          /\ op \in {"produce", "produce_and_wakeup"}
          /\ producer' = Add32(producer, cnt)
    \* the handle stores descriptors in produce's loop only
    /\ (TxStep /\ descs' # descs) => pc = "write"
    \* wakeup, needs_wakeup, poll and the tail of produce_and_wakeup
    /\ (TxStep /\ ((pc' = "ret" /\ op' \in {"wakeup", "needs_wakeup", "poll"})
                   \/ pc \in {"needs_wakeup", "wakeup"})) =>
          /\ producer' = producer
          /\ descs' = descs
          /\ cached_prod' = cached_prod /\ cached_cons' = cached_cons

\* C17: cursor ownership.  No operation of the handle writes the consumer
\* cursor or the needs-wakeup flag; wakeup, needs_wakeup and poll leave the
\* producer cursor and every slot as they were; only produce advances the
\* producer cursor and only the kernel the consumer cursor.
C17_CursorOwnership == [][C17_Step]_vars

\* needs_wakeup() has returned true on a ring with frames in flight, and the
\* ring is as it was when the call started
C17_Witness ==
    /\ pc = "ret" /\ op = "needs_wakeup" /\ ret.val = 1
    /\ flags # 0 /\ InFlight > 0
    /\ producer = prod0 /\ descs = ring0.descs

\* C18: an error after publication.  When produce_and_wakeup returns an error
\* (sendto() failed with an errno that is not one of the four), what its
\* produce accepted is published all the same: the producer cursor is cnt
\* past where the call found it, the cnt newest published descriptors are of
\* frames the kernel owns, and the caller is given the errno, not cnt.
C18_ErrorAfterPublication ==
    (pc = "ret" /\ op = "produce_and_wakeup" /\ ~ret.ok) =>
        /\ wakeups = 1 /\ sent.sret < 0
        /\ ret.val = sent.errno
        /\ producer = Add32(prod0, cnt)
        /\ InFlight >= cnt
        /\ \A j \in 0..(cnt - 1) :
             LET d == descs[Slot(Add32(prod0, j), size)] IN
             /\ d.len # 0
             /\ own[FrameOf(d.addr)] = "kernel"

\* produce_and_wakeup has failed with a whole batch of two published
C18_Witness ==
    /\ pc = "ret" /\ op = "produce_and_wakeup" /\ ~ret.ok
    /\ cnt = 2 /\ InFlight = 2
    /\ Cardinality({f \in Frames : own[f] = "kernel"}) >= 2

\* C19: a batch larger than the ring never succeeds.  A produce call with more
\* frames than the capacity returns 0 and submits nothing, in every state,
\* however far the kernel has drained the ring; no step of such a call moves
\* the producer cursor, so calling again with the same batch gets nowhere.
C19_Oversized ==
    /\ [](Len(frames) > size =>
             /\ pc \notin {"write", "submit", "panicked"}
             /\ cnt = 0 /\ nwrites = 0
             /\ producer = prod0 /\ descs = ring0.descs
             /\ \A i \in 1..Len(frames) : own[FrameOf(frames[i].addr)] = "filled"
             /\ (pc = "ret" => ret = [op |-> "produce", ok |-> TRUE, val |-> 0]))
    /\ [][Len(frames') > size => producer' = producer]_vars

\* an oversized batch was turned away by a ring that is empty
C19_Witness ==
    /\ ProduceDone /\ Len(frames) > size /\ size > 1
    /\ InFlight = 0 /\ free0 = size
    /\ cnt = 0

\* C20: the wakeup does not depend on the produced count.  Whatever produce
\* returned, 0 for an empty list or a full ring included, produce_and_wakeup
\* goes on to test the needs-wakeup flag, and issues one sendto() when it is
\* set.
C20_WakeupWhateverCount ==
    /\ [][(pc = "needs_wakeup" /\ TxStep) =>
            /\ pc' = (IF flags # 0 THEN "wakeup" ELSE "ret")
            /\ flag_read' = (flags # 0)]_vars
    /\ []((op = "produce_and_wakeup" /\ pc = "wakeup") => flag_read /\ wakeups = 0)
    /\ []((op = "produce_and_wakeup" /\ pc = "ret" /\ cnt = 0) =>
             wakeups = (IF flag_read THEN 1 ELSE 0))

\* produce_and_wakeup(&[]) has issued a sendto(): no frame was there to pass
C20_Witness ==
    /\ pc = "ret" /\ op = "produce_and_wakeup"
    /\ cnt = 0 /\ wakeups = 1 /\ ret.ok /\ ret.val = 0
    /\ \A f \in Frames : own[f] # "filled"

TypeOK ==
    /\ producer \in 0..(U32 - 1)
    /\ consumer \in 0..(U32 - 1)
    /\ pc \in {"idle", "write", "submit", "needs_wakeup", "wakeup", "ret", "panicked"}

====
